---- MODULE Spec2Model ----
(***************************************************************************)
(* Branch graph (fc::storage::indexdb::Graph), SyncJob / Syncer and        *)
(* InterpreterJob (fc::sync) of cpp-filecoin, as state machines.           *)
(***************************************************************************)
EXTENDS Integers, Sequences, FiniteSets, TLC

(* ------------------------------ bounds -------------------------------- *)

\* branch ids of the model are 1..MaxBranches (0 is kZeroBranchId)
MaxBranches == 4
\* tipset heights of loaded branches are 1..MaxHeight
MaxHeight == 3

\* the stored chain has one tipset per height 0..MaxChain (0 is genesis)
MaxChain == 3
\* peers are 1..MaxPeers
MaxPeers == 2
\* chain weights are 0..MaxWeight
MaxWeight == 1
\* the heads offered to the Syncer are the tipsets 1..MaxTarget
MaxTarget == 2

kZeroBranchId == 0

BranchIds == 0..MaxBranches
Heights == 1..MaxHeight


(* ================================ state =============================== *)

\* Graph
VARIABLES
    all_branches,                 \* Graph::all_branches_ : BranchId -> Branch
    roots,                        \* Graph::roots_
    heads,                        \* Graph::heads_
    current_chain,                \* Graph::current_chain_ : Height -> BranchId
    current_chain_bottom_height,  \* Graph::current_chain_bottom_height_
    aborted,                      \* an assert() failed: the process is
                                  \* aborted
    last                          \* the last Graph call and what it returned
                                  \* (its arguments when it succeeded)

gvars == <<all_branches, roots, heads, current_chain,
           current_chain_bottom_height, aborted, last>>

\* SyncJob, with the ChainDb and the TipsetLoader it drives
VARIABLES
    job,            \* SyncJob: active_, status_, and whether the callback
                    \* scheduled on cb_handle_ is still to run
    stored,         \* ChainDb: the hashes of the stored tipsets
    requests,       \* TipsetLoader: the set of hashes asked for by
                    \* loadTipsetAsync and not answered yet
    finished,       \* the SyncStatus callback_ was called with since the
                    \* last start
    moved_intact,   \* whether a TipsetKey read after std::move still holds
                    \* its value (it is unspecified)
    slast           \* the last call made on the job

jvars == <<job, stored, requests, finished, moved_intact, slast>>

\* InterpreterJob, with the result store and the interpreter it drives
VARIABLES
    ijob,           \* InterpreterJob: active_, status_, result_, next_steps_,
                    \* step_cursor_, and what is scheduled on cb_handle_
    saved,          \* the hashes of the tipsets that have a saved result
    chain_head,     \* ChainDb: the head set by setCurrentHead
    idelivered,     \* the Result callback_ was called with since the last
                    \* start
    irun            \* the run begun by the last start: its head, what was
                    \* saved then, and what has been done for it since

ivars == <<ijob, saved, chain_head, idelivered, irun>>

\* Syncer; its current_job_ is the SyncJob and its interpreter_job_ the
\* InterpreterJob above
VARIABLES
    started,            \* Syncer::started_
    pending_targets,    \* Syncer::pending_targets_ : PeerId -> Target
    current_weight,     \* Syncer::current_weight_
    current_height,     \* Syncer::current_height_
    last_good_peer,     \* Syncer::last_good_peer_
    upper               \* the Result the Syncer's callback_ was called with
                        \* since the last SyncJob was started

yvars == <<started, pending_targets, current_weight, current_height,
           last_good_peer, upper>>

vars == <<gvars, jvars, ivars, yvars>>

\* what a call on each component leaves alone
NotGraph == <<jvars, ivars, yvars>>
NotSyncJob == <<gvars, ivars, yvars>>
NotInterp == <<gvars, yvars>>
(* ------------------------------ state --------------------------------- *)

EmptyMap == << >>

\* the entries of a std::map without key k
MapErase(m, k) == [x \in DOMAIN m \ {k} |-> m[x]]

\* m with m[k] = v inserted or overwritten
MapPut(m, k, v) == [x \in DOMAIN m \cup {k} |-> IF x = k THEN v ELSE m[x]]

SetMin(S) == CHOOSE x \in S : \A y \in S : x <= y
SetMax(S) == CHOOSE x \in S : \A y \in S : x >= y

\* a value-initialized Branch, as std::map::operator[] inserts it
ZeroBranch ==
    [id |-> 0, parent |-> 0, top |-> 0, top_height |-> 0,
     bottom |-> 0, bottom_height |-> 0, forks |-> {}]

Call(op, a, b, code, ret) ==
    [op |-> op, a |-> a, b |-> b, code |-> code, ret |-> ret]

NoRet == <<0, 0>>

(* ------------------------------ load ---------------------------------- *)

\* the Branch record the index database hands to load for branch id
\* (the hashes are tokens derived from the id)
InBranch(id, parent, bottom_height, top_height) ==
    [id |-> id, parent |-> parent, top |-> 20 + id, top_height |-> top_height,
     bottom |-> 10 + id, bottom_height |-> bottom_height, forks |-> {}]

\* first loop of load: zero id or duplicate id
LoadIdsBad(v) ==
    \/ \E i \in DOMAIN v : v[i].id = kZeroBranchId
    \/ \E i, j \in DOMAIN v : i < j /\ v[i].id = v[j].id

\* the checks of the second loop with parent.top_height > b.bottom_height
LoadBranchBadStrict(ab, b) ==
    \/ b.top_height < b.bottom_height
    \/ /\ b.parent # kZeroBranchId
       /\ \/ b.parent = b.id
          \/ b.parent \notin DOMAIN ab
          \/ ab[b.parent].top_height > b.bottom_height

\* second loop of load: the checks made on branch b of map ab
LoadBranchBad(ab, b) ==
    \/ b.top_height < b.bottom_height
    \/ /\ b.parent # kZeroBranchId
       /\ \/ b.parent = b.id
          \/ b.parent \notin DOMAIN ab
          \/ ab[b.parent].top_height >= b.bottom_height

\* load whose last loop makes every branch with at most one fork a head
LoadResultHeadsLoose(v) ==
    LET ids == {v[i].id : i \in DOMAIN v}
        ab0 == [id \in ids |-> LET i == CHOOSE i \in DOMAIN v : v[i].id = id
                               IN v[i]]
    IN IF LoadIdsBad(v) \/ \E id \in ids : LoadBranchBad(ab0, ab0[id])
       THEN [ok |-> FALSE, all_branches |-> EmptyMap, roots |-> {}, heads |-> {}]
       ELSE LET ab == [id \in ids |->
                         [ab0[id] EXCEPT !.forks =
                            @ \cup {c \in ids : ab0[c].parent = id}]]
            IN [ok |-> TRUE,
                all_branches |-> ab,
                roots |-> {id \in ids : ab[id].parent = kZeroBranchId},
                heads |-> {id \in ids : Cardinality(ab[id].forks) <= 1}]

\* the graph a load of vector v leaves, ok = FALSE after loadFailed()
LoadResult(v) ==
    LET ids == {v[i].id : i \in DOMAIN v}
        ab0 == [id \in ids |-> LET i == CHOOSE i \in DOMAIN v : v[i].id = id
                               IN v[i]]
    IN IF LoadIdsBad(v) \/ \E id \in ids : LoadBranchBad(ab0, ab0[id])
       THEN [ok |-> FALSE, all_branches |-> EmptyMap, roots |-> {}, heads |-> {}]
       ELSE LET ab == [id \in ids |->
                         [ab0[id] EXCEPT !.forks =
                            @ \cup {c \in ids : ab0[c].parent = id}]]
            IN [ok |-> TRUE,
                all_branches |-> ab,
                roots |-> {id \in ids : ab[id].parent = kZeroBranchId},
                heads |-> {id \in ids : ab[id].forks = {}}]

(* --------------------------- inputs of load --------------------------- *)

\* height ranges of the branches of a stored graph: one or two tipsets
HeightPairs == {<<b, t>> \in Heights \X Heights : t = b \/ t = b + 1}

\* The vectors the index database hands to load at startup: branch i has id
\* i, branches are numbered in the order of their bottom heights, and the
\* parent of a branch is an earlier branch (or none) that ends below it.
RECURSIVE ForestsOfLen(_)
ForestsOfLen(n) ==
    IF n = 0 THEN {<< >>}
    ELSE {Append(x[1], InBranch(n, x[2], x[3][1], x[3][2])) :
            x \in {y \in ForestsOfLen(n - 1) \X (0..(n - 1)) \X HeightPairs :
                     /\ y[2] = 0 \/ y[1][y[2]].top_height < y[3][1]
                     /\ n = 1 \/ y[1][n - 1].bottom_height <= y[3][1]}}

ForestInputs == UNION {ForestsOfLen(n) : n \in 0..MaxBranches}

\* Vectors of two branches with any ids, any parents and any heights: the
\* inputs load has to reject are among them.
AnyBranch ==
    {InBranch(x[1], x[2], x[3], x[4]) :
       x \in BranchIds \X BranchIds \X Heights \X Heights}

PairInputs == {<<a, b>> : a \in AnyBranch, b \in {c \in AnyBranch : c.id <= 2}}

\* Vectors of one branch for a load into a graph that is in use.
ReloadInputs ==
    {<<a>> : a \in {c \in AnyBranch : /\ c.id <= 1 /\ c.parent <= 1
                                      /\ c.top_height = 1 /\ c.bottom_height <= 2}}

(* --------------------------- graph operations ------------------------- *)

\* Graph::clear() followed by the rest of Graph::load; arg: what the record
\* of the call keeps of the vector
GraphLoadAs(v, arg) ==
    LET r == LoadResult(v)
    IN /\ all_branches' = r.all_branches
       /\ roots' = r.roots
       /\ heads' = r.heads
       /\ current_chain' = EmptyMap
       /\ last' = Call("load", arg, 0,
                       IF r.ok THEN "OK" ELSE "GRAPH_LOAD_ERROR", NoRet)
       /\ UNCHANGED <<current_chain_bottom_height, aborted>>
       /\ UNCHANGED NotGraph

GraphLoad(v) == GraphLoadAs(v, 0)

\* load into the graph as constructed
Load ==
    /\ ~aborted
    /\ last.op = "none"
    /\ \E v \in ForestInputs \cup PairInputs : GraphLoad(v)

\* load into a graph that was loaded before
Reload ==
    /\ ~aborted
    /\ last.op # "none"
    /\ \E v \in ReloadInputs : GraphLoad(v)

\* the same two calls, the record of the call keeping the vector
LoadVector ==
    /\ ~aborted
    /\ last.op = "none"
    /\ \E v \in ForestInputs \cup PairInputs : GraphLoadAs(v, v)

ReloadVector ==
    /\ ~aborted
    /\ last.op # "none"
    /\ \E v \in ReloadInputs : GraphLoadAs(v, v)

\* what a Graph call returns and the graph it leaves
Outcome(code, ret, ab, rt, hd, cc, bh) ==
    [code |-> code, ret |-> ret, all_branches |-> ab, roots |-> rt,
     heads |-> hd, current_chain |-> cc, current_chain_bottom_height |-> bh]

\* a return that touched nothing
Untouched(code, ret) ==
    Outcome(code, ret, all_branches, roots, heads, current_chain,
            current_chain_bottom_height)

\* assert(it != all_branches_.end()) failed: the process is aborted
AssertFailed == Untouched("ASSERT", NoRet)

\* !current_chain_.empty() && current_chain_.rbegin()->second == id
ChainEndsAt(cc, id) == DOMAIN cc # {} /\ cc[SetMax(DOMAIN cc)] = id

\* current_chain_[b.top_height] = current_chain_[b.id];
\* operator[] on the right inserts key b.id with value 0 when it is absent
ChainRecord(cc, b) ==
    LET cc1 == IF b.id \in DOMAIN cc THEN cc ELSE MapPut(cc, b.id, 0)
    IN MapPut(cc1, b.top_height, cc1[b.id])

\* the for (;;) loop of switchToHead
RECURSIVE ChainWalk(_, _, _, _)
ChainWalk(ab, cc, curr_id, cycle_guard) ==
    IF curr_id \notin DOMAIN ab
    THEN [code |-> "ASSERT", cc |-> cc]
    ELSE LET b == ab[curr_id]
             cc1 == ChainRecord(cc, b)
         IN IF b.parent = kZeroBranchId
            THEN [code |-> "OK", cc |-> cc1]
            ELSE IF cycle_guard - 1 = 0
                 THEN [code |-> "CYCLE_DETECTED", cc |-> EmptyMap]
                 ELSE ChainWalk(ab, cc1, b.parent, cycle_guard - 1)

\* switchToHead that clears current_chain_ when head is the active head
switchToHeadDropsActive(head) ==
    IF ChainEndsAt(current_chain, head)
    THEN Outcome("OK", NoRet, all_branches, roots, heads, EmptyMap,
                 current_chain_bottom_height)
    ELSE IF head \notin heads
    THEN Untouched("BRANCH_IS_NOT_A_HEAD", NoRet)
    ELSE LET w == ChainWalk(all_branches, EmptyMap, head,
                            Cardinality(DOMAIN all_branches) + 1)
         IN IF w.code = "ASSERT" THEN AssertFailed
            ELSE IF w.code = "CYCLE_DETECTED"
            THEN Outcome("CYCLE_DETECTED", NoRet, all_branches, roots, heads,
                         EmptyMap, current_chain_bottom_height)
            ELSE \* all_branches_[current_chain_.begin()->second].bottom_height:
                 \* operator[] inserts a value-initialized Branch when absent
                 LET first == w.cc[SetMin(DOMAIN w.cc)]
                     ab1 == IF first \in DOMAIN all_branches
                            THEN all_branches
                            ELSE MapPut(all_branches, first, ZeroBranch)
                 IN Outcome("OK", NoRet, ab1, roots, heads, w.cc,
                            ab1[first].bottom_height)

\* switchToHead with current_chain_.clear() moved above the check of heads_
switchToHeadClearFirst(head) ==
    IF ChainEndsAt(current_chain, head)
    THEN Untouched("OK", NoRet)
    ELSE IF head \notin heads
    THEN Outcome("BRANCH_IS_NOT_A_HEAD", NoRet, all_branches, roots, heads,
                 EmptyMap, current_chain_bottom_height)
    ELSE LET w == ChainWalk(all_branches, EmptyMap, head,
                            Cardinality(DOMAIN all_branches) + 1)
         IN IF w.code = "ASSERT" THEN AssertFailed
            ELSE IF w.code = "CYCLE_DETECTED"
            THEN Outcome("CYCLE_DETECTED", NoRet, all_branches, roots, heads,
                         EmptyMap, current_chain_bottom_height)
            ELSE \* all_branches_[current_chain_.begin()->second].bottom_height:
                 \* operator[] inserts a value-initialized Branch when absent
                 LET first == w.cc[SetMin(DOMAIN w.cc)]
                     ab1 == IF first \in DOMAIN all_branches
                            THEN all_branches
                            ELSE MapPut(all_branches, first, ZeroBranch)
                 IN Outcome("OK", NoRet, ab1, roots, heads, w.cc,
                            ab1[first].bottom_height)

switchToHead(head) ==
    IF ChainEndsAt(current_chain, head)
    THEN Untouched("OK", NoRet)
    ELSE IF head \notin heads
    THEN Untouched("BRANCH_IS_NOT_A_HEAD", NoRet)
    ELSE LET w == ChainWalk(all_branches, EmptyMap, head,
                            Cardinality(DOMAIN all_branches) + 1)
         IN IF w.code = "ASSERT" THEN AssertFailed
            ELSE IF w.code = "CYCLE_DETECTED"
            THEN Outcome("CYCLE_DETECTED", NoRet, all_branches, roots, heads,
                         EmptyMap, current_chain_bottom_height)
            ELSE \* all_branches_[current_chain_.begin()->second].bottom_height:
                 \* operator[] inserts a value-initialized Branch when absent
                 LET first == w.cc[SetMin(DOMAIN w.cc)]
                     ab1 == IF first \in DOMAIN all_branches
                            THEN all_branches
                            ELSE MapPut(all_branches, first, ZeroBranch)
                 IN Outcome("OK", NoRet, ab1, roots, heads, w.cc,
                            ab1[first].bottom_height)

\* Graph::findByHeight on chain cc with bottom height bh: <<code, branch id>>
findByHeight(cc, bh, height) ==
    IF DOMAIN cc = {} THEN <<"NO_CURRENT_CHAIN", 0>>
    ELSE IF height < bh THEN <<"BRANCH_NOT_FOUND", 0>>
    ELSE LET ks == {k \in DOMAIN cc : k >= height}   \* lower_bound(height)
         IN IF ks = {} THEN <<"BRANCH_NOT_FOUND", 0>>
            ELSE <<"OK", cc[SetMin(ks)]>>

\* the pair Graph::merge returns for the collapsed branch b
mergeReturn(b, successor_id) == <<b.parent, successor_id>>

\* Graph::merge that leaves the forks of b's parent as they are
mergeNoRewire(ab, b, rt, hd, cc) ==
    LET successor_id == SetMin(b.forks)
    IN IF successor_id \notin DOMAIN ab THEN AssertFailed
       ELSE LET ab1 == [ab EXCEPT ![successor_id] =
                          [@ EXCEPT !.bottom = b.bottom,
                                    !.bottom_height = b.bottom_height,
                                    !.parent = b.parent]]
            IN IF b.parent # kZeroBranchId /\ b.parent \notin DOMAIN ab1
               THEN AssertFailed
               ELSE Outcome("OK", mergeReturn(b, successor_id), ab1, rt, hd, cc,
                            current_chain_bottom_height)

\* Graph::merge that leaves the parent of the successor as it is
mergeKeepsParent(ab, b, rt, hd, cc) ==
    LET successor_id == SetMin(b.forks)
    IN IF successor_id \notin DOMAIN ab THEN AssertFailed
       ELSE LET ab1 == [ab EXCEPT ![successor_id] =
                          [@ EXCEPT !.bottom = b.bottom,
                                    !.bottom_height = b.bottom_height]]
            IN IF b.parent = kZeroBranchId
               THEN Outcome("OK", mergeReturn(b, successor_id), ab1, rt, hd, cc,
                            current_chain_bottom_height)
               ELSE IF b.parent \notin DOMAIN ab1 THEN AssertFailed
               ELSE Outcome("OK", mergeReturn(b, successor_id),
                            [ab1 EXCEPT ![b.parent].forks =
                               (@ \ {b.id}) \cup {successor_id}],
                            rt, hd, cc, current_chain_bottom_height)

\* Graph::merge(b) on map ab, b already erased from ab
merge(ab, b, rt, hd, cc) ==
    LET successor_id == SetMin(b.forks)     \* *b.forks.begin()
    IN IF successor_id \notin DOMAIN ab THEN AssertFailed
       ELSE LET ab1 == [ab EXCEPT ![successor_id] =
                          [@ EXCEPT !.bottom = b.bottom,
                                    !.bottom_height = b.bottom_height,
                                    !.parent = b.parent]]
            IN IF b.parent = kZeroBranchId
               THEN Outcome("OK", mergeReturn(b, successor_id), ab1, rt, hd, cc,
                            current_chain_bottom_height)
               ELSE IF b.parent \notin DOMAIN ab1 THEN AssertFailed
               ELSE Outcome("OK", mergeReturn(b, successor_id),
                            [ab1 EXCEPT ![b.parent].forks =
                               (@ \ {b.id}) \cup {successor_id}],
                            rt, hd, cc, current_chain_bottom_height)

removeHead(head) ==
    IF head \notin heads
    THEN Untouched("BRANCH_IS_NOT_A_HEAD", NoRet)
    ELSE LET hd == heads \ {head}
             rt == roots \ {head}
             cc == IF ChainEndsAt(current_chain, head)
                   THEN EmptyMap ELSE current_chain
         IN IF head \notin DOMAIN all_branches THEN AssertFailed
            ELSE LET parent == all_branches[head].parent
                     ab1 == MapErase(all_branches, head)
                 IN IF parent = kZeroBranchId
                    THEN Outcome("OK", <<kZeroBranchId, kZeroBranchId>>, ab1,
                                 rt, hd, cc, current_chain_bottom_height)
                    ELSE IF parent \notin DOMAIN ab1 THEN AssertFailed
                    ELSE LET pb == [ab1[parent] EXCEPT !.forks = @ \ {head}]
                         IN IF Cardinality(pb.forks) # 1
                            THEN Outcome("OK", <<kZeroBranchId, kZeroBranchId>>,
                                         [ab1 EXCEPT ![parent] = pb],
                                         rt, hd, cc, current_chain_bottom_height)
                            ELSE \* merge parent branch with its successor
                                 merge(MapErase(ab1, parent), pb, rt, hd, cc)

\* Graph::linkToHead with its first two checks in the other order
linkToHeadHeadFirst(base_branch, successor_branch) ==
    IF base_branch \notin heads
    THEN Untouched("BRANCH_IS_NOT_A_HEAD", NoRet)
    ELSE IF successor_branch \notin roots
    THEN Untouched("BRANCH_IS_NOT_A_ROOT", NoRet)
    ELSE IF base_branch \notin DOMAIN all_branches
    THEN Untouched("BRANCH_NOT_FOUND", NoRet)
    ELSE IF successor_branch \notin DOMAIN all_branches
    THEN Untouched("BRANCH_NOT_FOUND", NoRet)
    ELSE LET base == all_branches[base_branch]
             successor == all_branches[successor_branch]
         IN IF successor.bottom_height <= base.top_height
            THEN Untouched("LINK_HEIGHT_MISMATCH", NoRet)
            ELSE LET ab1 == [all_branches EXCEPT ![successor_branch] =
                               [@ EXCEPT !.bottom_height = base.bottom_height,
                                         !.bottom = base.bottom,
                                         !.parent = base.parent]]
                     cc == IF ChainEndsAt(current_chain, base_branch)
                           THEN EmptyMap ELSE current_chain
                 IN IF base.parent # kZeroBranchId
                    THEN IF base.parent \notin DOMAIN ab1 THEN AssertFailed
                         ELSE Outcome("OK", NoRet,
                                [ab1 EXCEPT ![base.parent].forks =
                                   (@ \ {base_branch}) \cup {successor_branch}],
                                roots, heads \ {base_branch}, cc,
                                current_chain_bottom_height)
                    ELSE Outcome("OK", NoRet, ab1,
                                (roots \ {base_branch}) \cup {successor_branch},
                                heads \ {base_branch}, cc,
                                current_chain_bottom_height)

\* Graph::linkToHead; the body ends after heads_.erase(base_branch) with the
\* incomplete statement "all_branches_", so base_branch stays in the map
linkToHead(base_branch, successor_branch) ==
    IF successor_branch \notin roots
    THEN Untouched("BRANCH_IS_NOT_A_ROOT", NoRet)
    ELSE IF base_branch \notin heads
    THEN Untouched("BRANCH_IS_NOT_A_HEAD", NoRet)
    ELSE IF base_branch \notin DOMAIN all_branches
    THEN Untouched("BRANCH_NOT_FOUND", NoRet)
    ELSE IF successor_branch \notin DOMAIN all_branches
    THEN Untouched("BRANCH_NOT_FOUND", NoRet)
    ELSE LET base == all_branches[base_branch]
             successor == all_branches[successor_branch]
         IN IF successor.bottom_height <= base.top_height
            THEN Untouched("LINK_HEIGHT_MISMATCH", NoRet)
            ELSE LET ab1 == [all_branches EXCEPT ![successor_branch] =
                               [@ EXCEPT !.bottom_height = base.bottom_height,
                                         !.bottom = base.bottom,
                                         !.parent = base.parent]]
                     cc == IF ChainEndsAt(current_chain, base_branch)
                           THEN EmptyMap ELSE current_chain
                 IN IF base.parent # kZeroBranchId
                    THEN IF base.parent \notin DOMAIN ab1 THEN AssertFailed
                         ELSE Outcome("OK", NoRet,
                                [ab1 EXCEPT ![base.parent].forks =
                                   (@ \ {base_branch}) \cup {successor_branch}],
                                roots, heads \ {base_branch}, cc,
                                current_chain_bottom_height)
                    ELSE Outcome("OK", NoRet, ab1,
                                (roots \ {base_branch}) \cup {successor_branch},
                                heads \ {base_branch}, cc,
                                current_chain_bottom_height)

\* Graph::linkBranches: the two checks, then "TODO", return 0
linkBranches(base_branch, successor_branch) ==
    IF successor_branch \notin roots
    THEN Untouched("BRANCH_IS_NOT_A_ROOT", NoRet)
    ELSE IF base_branch \notin DOMAIN all_branches
    THEN Untouched("BRANCH_NOT_FOUND", NoRet)
    ELSE Untouched("OK", <<0, 0>>)

\* a Graph call op(a, b) with outcome o
Apply(op, a, b, o) ==
    /\ ~aborted
    /\ all_branches' = o.all_branches
    /\ roots' = o.roots
    /\ heads' = o.heads
    /\ current_chain' = o.current_chain
    /\ current_chain_bottom_height' = o.current_chain_bottom_height
    /\ aborted' = (o.code = "ASSERT")
    /\ last' = IF o.code = "OK" THEN Call(op, a, b, o.code, o.ret)
                ELSE Call(op, 0, 0, o.code, NoRet)
    /\ UNCHANGED NotGraph

SwitchToHead == \E head \in BranchIds :
    Apply("switchToHead", head, 0, switchToHead(head))

FindByHeight == \E height \in 0..(MaxHeight + 1) :
    LET r == findByHeight(current_chain, current_chain_bottom_height, height)
    IN Apply("findByHeight", height, 0, Untouched(r[1], <<r[2], 0>>))

RemoveHead == \E head \in BranchIds :
    Apply("removeHead", head, 0, removeHead(head))

LinkToHead == \E base_branch, successor_branch \in BranchIds :
    Apply("linkToHead", base_branch, successor_branch,
          linkToHead(base_branch, successor_branch))

LinkBranches == \E base_branch, successor_branch \in BranchIds :
    Apply("linkBranches", base_branch, successor_branch,
          linkBranches(base_branch, successor_branch))

InitGraph ==
    /\ all_branches = EmptyMap
    /\ roots = {}
    /\ heads = {}
    /\ current_chain = EmptyMap
    /\ current_chain_bottom_height = 0
    /\ aborted = FALSE
    /\ last = Call("none", 0, 0, "OK", NoRet)


(* =============================== SyncJob ============================== *)

\* A tipset of the chain is named by its height: the hash of its key is the
\* height, and the parents of tipset h are tipset h - 1.
Hashes == 0..MaxChain
Peers == 1..MaxPeers

\* boost::none of an optional TipsetHash / TipsetCPtr
NoHash == -1
\* TipsetHash{}
EmptyHash == -2
\* boost::none of an optional PeerId
NoPeer == 0

\* SyncStatus as default-constructed
IdleStatus ==
    [code |-> "IDLE", error |-> "none", peer |-> NoPeer, head |-> NoHash,
     last_loaded |-> NoHash, next |-> NoHash]

NewJob == [active |-> FALSE, status |-> IdleStatus, cb |-> FALSE]

\* the job, the chain db and the loader after a call
JobOut(j, st, rq) == [job |-> j, stored |-> st, requests |-> rq]

\* ChainDb::tipsetIsStored
tipsetIsStored(st, hash) == hash \in st

\* ChainDb::getUnsyncedBottom(head) and the value storeTipset returns: the
\* deepest stored tipset reached from h through stored parents, none when
\* that is genesis
UnsyncedBottom(st, h) ==
    LET b == SetMin({x \in 0..h : \A y \in x..h : y \in st})
    IN IF b = 0 THEN NoHash ELSE b

\* SyncJob::scheduleCallback: cb_handle_ takes the new callback
scheduleCallback(j) == [j EXCEPT !.cb = TRUE]

\* SyncJob::internalError without its call of scheduleCallback
internalErrorUnscheduled(j, e) ==
    [j EXCEPT !.status.error = e, !.status.code = "INTERNAL_ERROR"]

\* SyncJob::internalError
internalError(j, e) ==
    scheduleCallback([j EXCEPT !.status.error = e,
                               !.status.code = "INTERNAL_ERROR"])

\* SyncJob::nextTarget; req_ok: loadTipsetAsync succeeds (else it throws,
\* and both callers catch and call internalError)
nextTarget(j, st, rq, last_loaded, req_ok) ==
    IF last_loaded = NoHash
    THEN JobOut(scheduleCallback([j EXCEPT !.status.next = EmptyHash,
                                           !.status.code = "SYNCED_TO_GENESIS"]),
                st, rq)
    ELSE LET next == last_loaded - 1      \* roots->getParents().hash()
             j1 == [j EXCEPT !.status.last_loaded = last_loaded,
                             !.status.next = next]
         IN IF req_ok THEN JobOut(j1, st, rq \cup {next})
            ELSE JobOut(internalError(j1, "error"), st, rq)

\* SyncJob::start without its check of active_
JobStartWhenActive(j, st, rq, peer, head, req_ok, db_ok) ==
    IF FALSE THEN JobOut(j, st, rq)
    ELSE LET j1 == [j EXCEPT !.active = TRUE, !.status.peer = peer,
                             !.status.head = head]
             moved == IF moved_intact THEN head ELSE EmptyHash
         IN IF ~tipsetIsStored(st, moved)
            THEN IF req_ok
                 THEN JobOut([j1 EXCEPT !.status.next = head,
                                        !.status.code = "IN_PROGRESS"],
                             st, rq \cup {head})
                 ELSE JobOut(internalError(j1, "error"), st, rq)
            ELSE IF ~db_ok
                 THEN JobOut(internalError(j1, "error"), st, rq)
                 ELSE nextTarget(j1, st, rq, UnsyncedBottom(st, moved), req_ok)

\* SyncJob::start; head.hash() is read after std::move(head)
JobStart(j, st, rq, peer, head, req_ok, db_ok) ==
    IF j.active THEN JobOut(j, st, rq)
    ELSE LET j1 == [j EXCEPT !.active = TRUE, !.status.peer = peer,
                             !.status.head = head]
             moved == IF moved_intact THEN head ELSE EmptyHash
         IN IF ~tipsetIsStored(st, moved)
            THEN IF req_ok
                 THEN JobOut([j1 EXCEPT !.status.next = head,
                                        !.status.code = "IN_PROGRESS"],
                             st, rq \cup {head})
                 ELSE JobOut(internalError(j1, "error"), st, rq)
            ELSE IF ~db_ok
                 THEN JobOut(internalError(j1, "error"), st, rq)
                 ELSE nextTarget(j1, st, rq, UnsyncedBottom(st, moved), req_ok)

\* SyncJob::cancel
JobCancel(j) == IF j.active THEN NewJob ELSE j

\* the guard below without its comparison of the hash
DontNeedAnyHash(j, hash) ==
    \/ j.status.code # "IN_PROGRESS"
    \/ j.status.next = NoHash

\* the guard of SyncJob::onTipsetLoaded: "dont need this tipset"
DontNeed(j, hash) ==
    \/ j.status.code # "IN_PROGRESS"
    \/ j.status.next = NoHash
    \/ hash # j.status.next

\* SyncJob::onTipsetLoaded(hash, result); res_ok: result holds a tipset,
\* store_ok: storeTipset succeeds
JobOnTipsetLoaded(j, st, rq, hash, res_ok, store_ok, req_ok) ==
    IF DontNeed(j, hash) THEN JobOut(j, st, rq)
    ELSE IF ~res_ok THEN JobOut(internalError(j, "error"), st, rq)
    ELSE IF ~store_ok THEN JobOut(internalError(j, "error"), st, rq)
    ELSE LET st1 == st \cup {hash}
         IN nextTarget(j, st1, rq, UnsyncedBottom(st1, hash), req_ok)

SCall(op, hash) == [op |-> op, hash |-> hash]

\* a call on the job that leaves o
JobApply(o) ==
    /\ job' = o.job
    /\ stored' = o.stored
    /\ requests' = o.requests
    /\ UNCHANGED NotSyncJob

JStart == \E peer \in Peers, head \in Hashes, req_ok, db_ok \in BOOLEAN :
    /\ JobApply(JobStart(job, stored, requests, peer, head, req_ok, db_ok))
    /\ slast' = SCall("start", head)
    /\ finished' = IF job.active THEN finished ELSE IdleStatus
    /\ UNCHANGED moved_intact

JCancel ==
    /\ JobApply(JobOut(JobCancel(job), stored, requests))
    /\ slast' = SCall("cancel", NoHash)
    /\ UNCHANGED <<finished, moved_intact>>

\* the loader calls back with (hash, result)
JOnTipsetLoaded == \E hash \in Hashes, res_ok, store_ok, req_ok \in BOOLEAN :
    /\ JobApply(JobOnTipsetLoaded(job, stored, requests \ {hash}, hash,
                                  res_ok, store_ok, req_ok))
    /\ slast' = SCall("onTipsetLoaded", hash)
    /\ UNCHANGED <<finished, moved_intact>>

\* the scheduler runs the callback scheduled by scheduleCallback
JRunCallback ==
    /\ job.cb
    /\ job' = NewJob
    /\ finished' = job.status
    /\ slast' = SCall("callback", NoHash)
    /\ UNCHANGED <<stored, requests, moved_intact>>
    /\ UNCHANGED NotSyncJob

\* a new job; st: what the chain db holds, intact: the build's moved-from key
InitJob(st, intact) ==
    /\ job = NewJob
    /\ stored = st
    /\ requests = {}
    /\ finished = IdleStatus
    /\ moved_intact = intact
    /\ slast = SCall("none", NoHash)

(* =========================== InterpreterJob =========================== *)

kQueryLimit == 100

\* an outcome::result<vm::interpreter::Result>: the result of interpreting
\* the tipset at, or an error
Value(at) == [ok |-> TRUE, at |-> at, e |-> "none"]
Failure(e) == [ok |-> FALSE, at |-> NoHash, e |-> e]

\* InterpreterJob as constructed: result_{nullptr, kTipsetMarkedBad}
NewInterp ==
    [active |-> FALSE, current_height |-> 0, target_height |-> 0,
     head |-> NoHash, result |-> Failure("kTipsetMarkedBad"),
     next_steps |-> << >>, step_cursor |-> 0, cb |-> "none",
     crashed |-> FALSE]

\* Tipset::height() of the tipset with this hash
HeightOf(hash) == hash

\* the heights lo..hi in increasing order
RECURSIVE Ascending(_, _)
Ascending(lo, hi) ==
    IF lo > hi THEN << >> ELSE <<lo>> \o Ascending(lo + 1, hi)

\* ChainDb::walkBackward(from, 0, cb): the tipsets the callback is offered,
\* from the tipset `from` down through its stored ancestors
WalkedBackward(st, from) ==
    {x \in 0..from : \A y \in x..from : y \in st}

\* ChainDb::walkForward(from_height, to_height, cb): the tipsets of the
\* current chain at the heights from_height..to_height, lowest first
walkForward(st, ch, from_height, to_height) ==
    SelectSeq(Ascending(from_height, to_height),
              LAMBDA h : h \in st /\ h <= ch)

\* what a call did besides changing the job: whether it called
\* setCurrentHead, the tipset it handed to interpret (if any), and whether a
\* call it made returned an error
Did(set_head, interpret, failed) ==
    [set_head |-> set_head, interpret |-> interpret, failed |-> failed]

Nothing == Did(FALSE, NoHash, FALSE)

\* the job, the result store and the chain db head after a call
InterpOut(ij, sv, ch, code, did) ==
    [ijob |-> ij, saved |-> sv, chain_head |-> ch, code |-> code, did |-> did]

\* InterpreterJob::cancel without its cb_handle_.cancel()
InterpCancelKeepsHandle(ij) == [ij EXCEPT !.active = FALSE]

\* InterpreterJob::cancel
InterpCancel(ij) == [ij EXCEPT !.active = FALSE, !.cb = "none"]

\* InterpreterJob::scheduleResult
scheduleResult(ij) ==
    [ij EXCEPT !.active = FALSE, !.next_steps = << >>, !.step_cursor = 0,
               !.cb = "result"]

\* InterpreterJob::scheduleStep
scheduleStep(ij) == IF ~ij.active THEN ij ELSE [ij EXCEPT !.cb = "step"]

\* InterpreterJob::start that does not probe the result store for the head
InterpStartNoProbe(ij, st, sv, ch, head, fail) ==
    LET ij0 == IF ij.active THEN InterpCancel(ij) ELSE ij
        ij1 == [ij0 EXCEPT !.head = head, !.target_height = HeightOf(head)]
        found == WalkedBackward(st, head) \cap sv
        ij3 == IF found = {} THEN ij1
               ELSE [ij1 EXCEPT !.current_height = HeightOf(SetMax(found))]
    IN IF fail = "getTipsetByKey" \/ head \notin st
       THEN InterpOut(ij0, sv, ch, "ERROR", Did(FALSE, NoHash, TRUE))
       ELSE IF fail = "getSavedResult"
       THEN InterpOut(ij1, sv, ch, "ERROR", Did(FALSE, NoHash, TRUE))
       ELSE IF fail = "setCurrentHead"
       THEN InterpOut(ij1, sv, ch, "ERROR", Did(TRUE, NoHash, TRUE))
       ELSE IF fail = "walkBackward"
       THEN InterpOut(ij1, sv, head, "ERROR", Did(TRUE, NoHash, TRUE))
       ELSE InterpOut(scheduleStep([ij3 EXCEPT !.active = TRUE]), sv, head,
                      "OK", Did(TRUE, NoHash, FALSE))

\* InterpreterJob::start; fail: the call of the chain db or of the result
\* store that returns an error, if any
InterpStart(ij, st, sv, ch, head, fail) ==
    LET ij0 == IF ij.active THEN InterpCancel(ij) ELSE ij
        ij1 == [ij0 EXCEPT !.head = head, !.target_height = HeightOf(head)]
        \* walkBackward: the callback stops at the first saved tipset
        found == WalkedBackward(st, head) \cap sv
        ij3 == IF found = {} THEN ij1
               ELSE [ij1 EXCEPT !.current_height = HeightOf(SetMax(found))]
    IN IF fail = "getTipsetByKey" \/ head \notin st
       THEN InterpOut(ij0, sv, ch, "ERROR", Did(FALSE, NoHash, TRUE))
       ELSE IF fail = "getSavedResult"
       THEN InterpOut(ij1, sv, ch, "ERROR", Did(FALSE, NoHash, TRUE))
       ELSE IF head \in sv
       THEN InterpOut(scheduleResult(
                [ij1 EXCEPT !.result = Value(head),
                            !.current_height = ij1.target_height]),
                sv, ch, "OK", Nothing)
       ELSE IF fail = "setCurrentHead"
       THEN InterpOut(ij1, sv, ch, "ERROR", Did(TRUE, NoHash, TRUE))
       ELSE IF fail = "walkBackward"
       THEN InterpOut(ij1, sv, head, "ERROR", Did(TRUE, NoHash, TRUE))
       ELSE InterpOut(scheduleStep([ij3 EXCEPT !.active = TRUE]), sv, head,
                      "OK", Did(TRUE, NoHash, FALSE))

\* InterpreterJob::fillNextSteps; walk_ok: walkForward succeeds
fillNextSteps(ij, st, ch, walk_ok) ==
    IF ij.step_cursor < Len(ij.next_steps) THEN ij
    ELSE LET ij1 == [ij EXCEPT !.next_steps = << >>, !.step_cursor = 0]
             d == ij.target_height - ij.current_height
             diff == IF d > kQueryLimit THEN kQueryLimit ELSE d
         IN IF ij.target_height < ij.current_height
            THEN [ij1 EXCEPT !.crashed = TRUE]       \* assert
            ELSE IF diff = 0 THEN ij1
            ELSE IF ~walk_ok
            THEN [ij1 EXCEPT !.result = Failure("walkForward")]
            ELSE [ij1 EXCEPT !.next_steps =
                     SelectSeq(walkForward(st, ch, ij.current_height + 1,
                                           ij.current_height + diff - 1),
                               LAMBDA h : HeightOf(h) <= ij.target_height)]

\* InterpreterJob::nextStep, run by the scheduler; interp_ok: interpret
\* succeeds, and the cached interpreter saves its result
nextStep(ij, st, sv, ch, walk_ok, interp_ok) ==
    IF ~ij.active THEN InterpOut(ij, sv, ch, "OK", Nothing)
    ELSE LET f == fillNextSteps(ij, st, ch, walk_ok)
             walk_failed == f.result # ij.result
         IN IF f.crashed THEN InterpOut(f, sv, ch, "ASSERT", Nothing)
            ELSE IF f.next_steps = << >>
            THEN InterpOut(scheduleResult(f), sv, ch, "OK",
                           Did(FALSE, NoHash, walk_failed))
            ELSE LET tipset == f.next_steps[f.step_cursor + 1]
                     f1 == [f EXCEPT !.step_cursor = @ + 1,
                                     !.current_height = HeightOf(tipset)]
                 IN IF interp_ok
                    THEN InterpOut(scheduleStep(
                             [f1 EXCEPT !.result = Value(tipset)]),
                             sv \cup {tipset}, ch, "OK",
                             Did(FALSE, tipset, FALSE))
                    ELSE InterpOut(scheduleResult(
                             [f1 EXCEPT !.result = Failure("interpret"),
                                        !.active = FALSE]),
                             sv, ch, "OK", Did(FALSE, tipset, TRUE))

\* no Result has been handed to callback_
NoResult == [head |-> NoHash, result |-> Failure("none")]

\* the run a start begins: what start was given and found, and what has
\* been done for the run since
NewRun(head, was_saved, base, code, did) ==
    [head |-> head,
     was_saved |-> was_saved,       \* the head had a saved result
     base |-> base,                 \* its highest ancestor with a saved result
     ok |-> code = "OK",            \* start returned success
     set_head |-> did.set_head,     \* setCurrentHead was called
     interpreted |-> << >>,         \* the tipsets handed to interpret
     failed |-> did.failed,         \* a call made for the run failed
     callbacks |-> 0,               \* calls of callback_
     cancelled |-> FALSE]           \* cancel was called

NoRun == NewRun(NoHash, FALSE, NoHash, "none", Nothing)

\* the run after a step that did did
RunStep(run, did) ==
    [run EXCEPT !.interpreted = IF did.interpret = NoHash THEN @
                                ELSE Append(@, did.interpret),
                !.failed = @ \/ did.failed]

\* a call on the job that leaves o
InterpApply(o) ==
    /\ ~ijob.crashed
    /\ ijob' = o.ijob
    /\ saved' = o.saved
    /\ chain_head' = o.chain_head
    /\ UNCHANGED NotInterp

FailPoints ==
    {"none", "getTipsetByKey", "getSavedResult", "setCurrentHead",
     "walkBackward"}

IStart == \E head \in Hashes, fail \in FailPoints :
    LET o == InterpStart(ijob, stored, saved, chain_head, head, fail)
        found == WalkedBackward(stored, head) \cap saved
    IN /\ InterpApply(o)
       /\ irun' = NewRun(head, head \in saved,
                         IF found = {} THEN NoHash ELSE SetMax(found),
                         o.code, o.did)
       /\ idelivered' = NoResult
       /\ UNCHANGED jvars

ICancel ==
    /\ InterpApply(InterpOut(InterpCancel(ijob), saved, chain_head, "OK",
                             Nothing))
    /\ irun' = [irun EXCEPT !.cancelled = TRUE]
    /\ UNCHANGED <<jvars, idelivered>>

\* the scheduler runs the step scheduled by scheduleStep
IStep == \E walk_ok, interp_ok \in BOOLEAN :
    LET o == nextStep([ijob EXCEPT !.cb = "none"], stored, saved, chain_head,
                      walk_ok, interp_ok)
    IN /\ ijob.cb = "step"
       /\ InterpApply(o)
       /\ irun' = RunStep(irun, o.did)
       /\ UNCHANGED <<jvars, idelivered>>

\* the scheduler runs the callback scheduled by scheduleResult
IRunCallback ==
    /\ ijob.cb = "result"
    /\ InterpApply(InterpOut([ijob EXCEPT !.cb = "none"], saved, chain_head,
                             "OK", Nothing))
    /\ idelivered' = [head |-> ijob.head, result |-> ijob.result]
    /\ irun' = [irun EXCEPT !.callbacks = @ + 1]
    /\ UNCHANGED jvars

\* a new job; sv: the tipsets interpreted before
InitInterp(sv) ==
    /\ ijob = NewInterp
    /\ saved = sv
    /\ chain_head = NoHash
    /\ idelivered = NoResult
    /\ irun = NoRun

(* =============================== Syncer =============================== *)

\* under the Syncer the loader's requests, the chain db's lookups and walks
\* and the result store do not fail; a load, storeTipset and interpret can
\* fail
Healthy == {TRUE}

Weights == 0..MaxWeight
TargetHeads == 1..MaxTarget

\* Syncer::Target
Target(head, weight, height) ==
    [head |-> head, weight |-> weight, height |-> height]

\* the orders in which a std::unordered_map with these keys can be iterated
Orders(keys) ==
    {o \in [1..Cardinality(keys) -> keys] :
        \A i, k \in DOMAIN o : i # k => o[i] # o[k]}

\* Syncer::isActive that does not ask the job
isActiveNoJob(st, j) == FALSE

\* Syncer::isActive; current_job_ is made by the first startJob, and a job
\* that was never started is not active
isActive(st, j) == st /\ j.active

\* the loop of Syncer::chooseNextTarget over the entries from i on
RECURSIVE ChooseLoop(_, _, _, _, _)
ChooseLoop(pt, order, i, ch, c) ==
    IF i > Len(order) THEN c
    ELSE LET it == pt[order[i]]
         IN IF it.weight > c.max_weight
            THEN ChooseLoop(pt, order, i + 1, ch,
                     [c EXCEPT !.max_weight = it.weight,
                               !.target = order[i]])
            ELSE IF it.weight = c.max_weight /\ it.height > ch
            THEN ChooseLoop(pt, order, i + 1, ch,
                     [c EXCEPT !.max_height = ch, !.target = order[i]])
            ELSE ChooseLoop(pt, order, i + 1, ch, c)

\* Syncer::chooseNextTarget: the peer of the chosen target (NoPeer: none)
\* and pending_targets_ afterwards; order: the map's iteration order
chooseNextTarget(pt, cw, ch, order) ==
    LET c == ChooseLoop(pt, order, 1, ch,
                 [max_weight |-> cw, max_height |-> ch, target |-> NoPeer])
    IN [target |-> c.target,
        pending |-> IF c.target = NoPeer THEN EmptyMap ELSE pt]

\* the targets of Syncer::setCurrentWeightAndHeight left pending
Pruned(pt, w, h) ==
    LET keep == {p \in DOMAIN pt : ~(pt[p].weight <= w /\ pt[p].height <= h)}
    IN [p \in keep |-> pt[p]]

\* Syncer::startJob; st: started_. A failed assert() aborts the process
StartJob(st, peer, head, req_ok, db_ok) ==
    LET o == JobStart(job, stored, requests, peer, head, req_ok, db_ok)
    IN IF st /\ ~job.active
       THEN /\ job' = o.job
            /\ stored' = o.stored
            /\ requests' = o.requests
            /\ finished' = IdleStatus
            /\ upper' = NoResult
            /\ slast' = SCall("start", head)
            /\ UNCHANGED <<moved_intact, aborted>>
       ELSE /\ aborted' = TRUE
            /\ UNCHANGED <<jvars, upper>>

SyStart == \E order \in Orders(DOMAIN pending_targets),
              req_ok, db_ok \in Healthy :
    LET c == chooseNextTarget(pending_targets, current_weight,
                              current_height, order)
    IN /\ ~aborted
       /\ started' = TRUE
       /\ IF isActive(TRUE, job)
          THEN UNCHANGED <<jvars, pending_targets, upper, aborted>>
          ELSE IF c.target = NoPeer
          THEN /\ pending_targets' = c.pending
               /\ UNCHANGED <<jvars, upper, aborted>>
          ELSE /\ StartJob(TRUE, c.target, pending_targets[c.target].head,
                           req_ok, db_ok)
               /\ pending_targets' = MapErase(c.pending, c.target)
       /\ UNCHANGED <<current_weight, current_height, last_good_peer>>
       /\ UNCHANGED <<all_branches, roots, heads, current_chain,
                      current_chain_bottom_height, last, ivars>>

\* Syncer::newTarget that admits a target below the local weight and height
newTargetAdmitsLow(peer, head, weight, req_ok, db_ok) ==
    LET height == HeightOf(head)
        p == IF peer = NoPeer THEN last_good_peer ELSE peer
    IN /\ ~aborted
       /\ IF p = NoPeer
          THEN UNCHANGED <<jvars, pending_targets, upper, aborted>>
          ELSE IF started /\ ~isActive(started, job)
          THEN /\ StartJob(started, p, head, req_ok, db_ok)
               /\ UNCHANGED pending_targets
          ELSE /\ pending_targets' =
                      MapPut(pending_targets, p, Target(head, weight, height))
               /\ UNCHANGED <<jvars, upper, aborted>>
       /\ UNCHANGED <<started, current_weight, current_height,
                      last_good_peer>>
       /\ UNCHANGED <<all_branches, roots, heads, current_chain,
                      current_chain_bottom_height, last, ivars>>

\* Syncer::newTarget(peer, head_tipset, weight, height); the height is that
\* of the head
newTarget(peer, head, weight, req_ok, db_ok) ==
    LET height == HeightOf(head)
        p == IF peer = NoPeer THEN last_good_peer ELSE peer
    IN /\ ~aborted
       /\ IF (weight < current_weight /\ height < current_height)
             \/ p = NoPeer
          THEN UNCHANGED <<jvars, pending_targets, upper, aborted>>
          ELSE IF started /\ ~isActive(started, job)
          THEN /\ StartJob(started, p, head, req_ok, db_ok)
               /\ UNCHANGED pending_targets
          ELSE /\ pending_targets' =
                      MapPut(pending_targets, p, Target(head, weight, height))
               /\ UNCHANGED <<jvars, upper, aborted>>
       /\ UNCHANGED <<started, current_weight, current_height,
                      last_good_peer>>
       /\ UNCHANGED <<all_branches, roots, heads, current_chain,
                      current_chain_bottom_height, last, ivars>>

SyNewTarget == \E peer \in Peers \cup {NoPeer}, head \in TargetHeads,
                  weight \in Weights, req_ok, db_ok \in Healthy :
    newTarget(peer, head, weight, req_ok, db_ok)

SyExcludePeer == \E peer \in Peers :
    /\ ~aborted
    /\ pending_targets' = MapErase(pending_targets, peer)
    /\ UNCHANGED <<started, current_weight, current_height, last_good_peer,
                   upper>>
    /\ UNCHANGED <<gvars, jvars, ivars>>

SySetCurrentWeightAndHeight == \E w \in Weights, h \in 0..MaxTarget :
    /\ ~aborted
    /\ current_weight' = w
    /\ current_height' = h
    /\ pending_targets' = Pruned(pending_targets, w, h)
    /\ UNCHANGED <<started, last_good_peer, upper>>
    /\ UNCHANGED <<gvars, jvars, ivars>>

\* Syncer::onTipsetLoaded, called by the loader with the answer to a
\* request; on a failed result tipset_res.value() throws and the job is not
\* told. probable_height_, which only makes the depth hint given to the
\* loader, is left out
SyOnTipsetLoaded == \E hash \in requests, res_ok, store_ok \in BOOLEAN,
                       req_ok \in Healthy :
    LET o == JobOnTipsetLoaded(job, stored, requests \ {hash}, hash,
                               res_ok, store_ok, req_ok)
    IN /\ ~aborted
       /\ IF ~isActive(started, job) \/ ~res_ok
          THEN /\ requests' = requests \ {hash}
               /\ slast' = SCall(IF res_ok THEN "onTipsetLoaded"
                                ELSE "onTipsetLoaded failure", hash)
               /\ UNCHANGED <<job, stored>>
          ELSE /\ job' = o.job
               /\ stored' = o.stored
               /\ requests' = o.requests
               /\ slast' = SCall("onTipsetLoaded", hash)
       /\ UNCHANGED <<finished, moved_intact>>
       /\ UNCHANGED <<started, pending_targets, current_weight,
                      current_height, last_good_peer, upper>>
       /\ UNCHANGED <<gvars, ivars>>

\* Syncer::onSyncJobFinished that does not look at the status code
SyncedAnyCode(status) == TRUE

\* the test of Syncer::onSyncJobFinished
Synced(status) == status.code = "SYNCED_TO_GENESIS"

\* the scheduler runs the job's callback, which calls
\* Syncer::onSyncJobFinished
SyJobFinished == \E fail \in {"none"} :
    LET status == job.status
        o == InterpStart(ijob, stored, saved, chain_head, status.head, fail)
        found == WalkedBackward(stored, status.head) \cap saved
    IN /\ ~aborted
       /\ job.cb
       /\ ~ijob.crashed
       /\ job' = NewJob
       /\ finished' = status
       /\ slast' = SCall("callback", NoHash)
       /\ IF Synced(status)
          THEN /\ last_good_peer' = status.peer
               /\ ijob' = o.ijob
               /\ saved' = o.saved
               /\ chain_head' = o.chain_head
               /\ idelivered' = NoResult
               /\ irun' = NewRun(status.head, status.head \in saved,
                                 IF found = {} THEN NoHash ELSE SetMax(found),
                                 o.code, o.did)
          ELSE UNCHANGED <<last_good_peer, ivars>>
       /\ UNCHANGED <<stored, requests, moved_intact>>
       /\ UNCHANGED <<started, pending_targets, current_weight,
                      current_height, upper>>
       /\ UNCHANGED gvars

\* the scheduler runs the interpreter job's callback, which calls
\* Syncer::onInterpreterResult
SyInterpreterResult ==
    /\ ~aborted
    /\ ijob.cb = "result"
    /\ ~ijob.crashed
    /\ ijob' = [ijob EXCEPT !.cb = "none"]
    /\ idelivered' = [head |-> ijob.head, result |-> ijob.result]
    /\ irun' = [irun EXCEPT !.callbacks = @ + 1]
    /\ upper' = IF ijob.result.ok
                THEN [head |-> ijob.head, result |-> ijob.result]
                ELSE upper
    /\ UNCHANGED <<saved, chain_head>>
    /\ UNCHANGED <<started, pending_targets, current_weight, current_height,
                   last_good_peer>>
    /\ UNCHANGED <<gvars, jvars>>

\* the scheduler runs a step of the interpreter job
SyInterpreterStep == \E walk_ok \in Healthy, interp_ok \in BOOLEAN :
    LET o == nextStep([ijob EXCEPT !.cb = "none"], stored, saved, chain_head,
                      walk_ok, interp_ok)
    IN /\ ~aborted
       /\ ijob.cb = "step"
       /\ InterpApply(o)
       /\ irun' = RunStep(irun, o.did)
       /\ UNCHANGED <<jvars, idelivered>>

\* a Syncer as constructed
InitSyncer ==
    /\ started = FALSE
    /\ pending_targets = EmptyMap
    /\ current_weight = 0
    /\ current_height = 0
    /\ last_good_peer = NoPeer
    /\ upper = NoResult

(* =========================== specifications =========================== *)

\* the jobs as constructed, on a chain db that holds genesis only
IdleJobs == InitJob({0}, TRUE) /\ InitInterp({}) /\ InitSyncer

Init == InitGraph /\ IdleJobs

\* the graph: every call
Next ==
    \/ Load
    \/ Reload
    \/ SwitchToHead
    \/ FindByHeight
    \/ RemoveHead
    \/ LinkToHead

Spec == Init /\ [][Next]_vars

\* the graph: load, then removeHead and linkToHead only
NextEdit == Load \/ RemoveHead \/ LinkToHead

SpecEdit == Init /\ [][NextEdit]_vars

\* the graph: load, then linkBranches only
NextLinkBranches == Load \/ LinkBranches

SpecLinkBranches == Init /\ [][NextLinkBranches]_vars

\* the graph: load and load again, the vectors on record
NextLoad == LoadVector \/ ReloadVector

SpecLoad == Init /\ [][NextLoad]_vars

\* the graph: load, then every mutator
NextMutators ==
    \/ Load
    \/ SwitchToHead
    \/ RemoveHead
    \/ LinkToHead
    \/ LinkBranches

SpecMutators == Init /\ [][NextMutators]_vars

\* a SyncJob driven by its owner, the loader and the scheduler
NextSyncJob == JStart \/ JCancel \/ JOnTipsetLoaded \/ JRunCallback

\* the chain db holds genesis and any of the other tipsets
InitSyncJob ==
    /\ InitGraph
    /\ \E st \in SUBSET Hashes, intact \in BOOLEAN :
           0 \in st /\ InitJob(st, intact)
    /\ InitInterp({})
    /\ InitSyncer

SpecSyncJob == InitSyncJob /\ [][NextSyncJob]_vars

\* the scheduler runs a callback it was given, unless its handle is cancelled
SpecSyncJobFair == SpecSyncJob /\ WF_vars(JRunCallback)

\* an InterpreterJob driven by its owner and the scheduler, on a chain
\* synced to genesis of which the tipsets up to some height are interpreted
NextInterp == IStart \/ ICancel \/ IStep \/ IRunCallback

InitInterpreter ==
    /\ InitGraph
    /\ InitJob(Hashes, TRUE)
    /\ \E k \in -1..MaxChain : InitInterp(0..k)
    /\ InitSyncer

SpecInterp == InitInterpreter /\ [][NextInterp]_vars

\* a SyncJob or an InterpreterJob driven alone: the two classes share no
\* field, and a behaviour drives the job it used first, the other one staying
\* as constructed
NextJobs ==
    \/ ijob = NewInterp /\ irun = NoRun /\ NextSyncJob
    \/ job = NewJob /\ slast = SCall("none", NoHash) /\ NextInterp

InitJobs == InitSyncJob \/ InitInterpreter

SpecJobs == InitJobs /\ [][NextJobs]_vars

\* a Syncer driven by its owner, the loader and the scheduler, on a chain
\* db that holds genesis, interpreted
NextSyncer ==
    \/ SyStart
    \/ SyNewTarget
    \/ SyExcludePeer
    \/ SySetCurrentWeightAndHeight
    \/ SyOnTipsetLoaded
    \/ SyJobFinished
    \/ SyInterpreterStep
    \/ SyInterpreterResult

InitSyncerOnGenesis ==
    /\ InitGraph
    /\ \E intact \in BOOLEAN : InitJob({0}, intact)
    /\ InitInterp({0})
    /\ InitSyncer

SpecSyncer == InitSyncerOnGenesis /\ [][NextSyncer]_vars

(* ------------------------- claims on the graph ------------------------ *)

Present(id) == id \in DOMAIN all_branches

\* C1: the index sets agree with the branch records: an id is in roots
\* exactly when that branch is present with parent == 0, and in heads exactly
\* when that branch is present with an empty forks set.
C1_IndexSetsAgree ==
    \A id \in DOMAIN all_branches \cup roots \cup heads :
        /\ id \in roots <=> (Present(id) /\ all_branches[id].parent = 0)
        /\ id \in heads <=> (Present(id) /\ all_branches[id].forks = {})

\* C2: after load, removeHead and linkToHead calls every branch has
\* bottom_height <= top_height, and a non-zero parent is present and ends
\* below the branch's bottom_height.
C2_HeightsOrdered ==
    \A id \in DOMAIN all_branches :
        LET b == all_branches[id]
        IN /\ b.bottom_height <= b.top_height
           /\ b.parent # 0 =>
                /\ Present(b.parent)
                /\ all_branches[b.parent].top_height < b.bottom_height

\* C3: after load, removeHead and linkToHead calls every id f in the forks
\* of a branch b is present in all_branches and has parent b.id.
C3_ForksHaveParent ==
    \A id \in DOMAIN all_branches :
        \A f \in all_branches[id].forks :
            Present(f) /\ all_branches[f].parent = all_branches[id].id

\* the ids on the parent-pointer path from id down to its root in map ab
RECURSIVE PathIds(_, _, _)
PathIds(ab, id, fuel) ==
    IF id \notin DOMAIN ab \/ fuel = 0 THEN {}
    ELSE IF ab[id].parent = 0 THEN {id}
    ELSE {id} \cup PathIds(ab, ab[id].parent, fuel - 1)

\* C4: after a successful switchToHead(h), current_chain holds exactly one
\* entry per branch on the path from h to its root, keyed by the branch's
\* top_height with the branch id as value, and findByHeight(k) returns the
\* branch of the path whose [bottom_height, top_height] contains k.
C4_ChainTracesPath ==
    (last.op = "switchToHead" /\ last.code = "OK") =>
        LET path == PathIds(all_branches, last.a, Cardinality(DOMAIN all_branches))
        IN /\ DOMAIN current_chain = {all_branches[id].top_height : id \in path}
           /\ \A id \in path :
                /\ current_chain[all_branches[id].top_height] = id
                /\ \A k \in all_branches[id].bottom_height ..
                            all_branches[id].top_height :
                     findByHeight(current_chain, current_chain_bottom_height, k)
                       = <<"OK", id>>

\* C10: removeHead(head) returns (P, S) when removing head leaves its parent
\* P with exactly one remaining fork S, and (0, 0) in every other successful
\* case.
C10_RemoveHeadReturnsPair ==
    [][(last'.op = "removeHead" /\ last'.code = "OK"
          /\ last'.a \in heads /\ last'.a \in DOMAIN all_branches) =>
        LET head == last'.a
            P == all_branches[head].parent
            rest == IF P \in DOMAIN all_branches
                    THEN all_branches[P].forks \ {head} ELSE {}
        IN last'.ret = IF P # 0 /\ Cardinality(rest) = 1
                       THEN <<P, CHOOSE S \in rest : TRUE>>
                       ELSE <<0, 0>>]_vars


\* the codes a Graph mutator returns as errors
ErrorCodes ==
    {"BRANCH_IS_NOT_A_HEAD", "BRANCH_IS_NOT_A_ROOT", "BRANCH_NOT_FOUND",
     "LINK_HEIGHT_MISMATCH", "CYCLE_DETECTED"}

Mutators == {"switchToHead", "removeHead", "linkToHead", "linkBranches"}

\* C11: a call of switchToHead, removeHead, linkToHead or linkBranches that
\* returns an error leaves all_branches (every branch's fields and forks),
\* roots, heads, current_chain and current_chain_bottom_height as they were.
C11_FailedMutatorChangesNothing ==
    [][ (last'.op \in Mutators /\ last'.code \in ErrorCodes)
        => UNCHANGED <<all_branches, roots, heads, current_chain,
                       current_chain_bottom_height>> ]_vars

\* C11: a mutator has just returned an error on a graph that has branches
\* and a current chain
C11_Witness ==
    /\ last.op \in Mutators
    /\ last.code \in ErrorCodes
    /\ DOMAIN all_branches # {}
    /\ DOMAIN current_chain # {}

\* C23: findByHeight answers NO_CURRENT_CHAIN when current_chain is empty;
\* after switchToHead(head) has adopted a head it answers BRANCH_NOT_FOUND
\* for a height below current_chain_bottom_height or above the head's
\* top_height and succeeds for every height in between; and a call of
\* findByHeight leaves the graph as it is.
C23_FindByHeightAnswers ==
    /\ [](\A h \in 0..(MaxHeight + 1) :
            LET r == findByHeight(current_chain, current_chain_bottom_height, h)
            IN /\ DOMAIN current_chain = {} => r[1] = "NO_CURRENT_CHAIN"
               /\ (/\ DOMAIN current_chain # {}
                   /\ last.op = "switchToHead" /\ last.code = "OK"
                   /\ last.a \in heads /\ last.a \in DOMAIN all_branches)
                  => IF \/ h < current_chain_bottom_height
                        \/ h > all_branches[last.a].top_height
                     THEN r[1] = "BRANCH_NOT_FOUND"
                     ELSE r[1] = "OK")
    /\ [][ last'.op = "findByHeight"
              => UNCHANGED <<all_branches, roots, heads, current_chain,
                             current_chain_bottom_height>> ]_vars

\* C24: when removeHead(head) collapses the parent P of head into P's one
\* remaining fork S, afterwards head and P are absent from all_branches, S
\* has P's former bottom, bottom_height and parent and is otherwise as it
\* was, P's former parent (if any) has P replaced by S in its forks and is
\* otherwise as it was, and every other branch is unchanged.
C24_CollapseRewires ==
    [][ (/\ last'.op = "removeHead" /\ last'.code = "OK"
         /\ last'.a \in heads /\ last'.a \in DOMAIN all_branches)
        => LET head == last'.a
               P == all_branches[head].parent
               rest == IF P \in DOMAIN all_branches
                       THEN all_branches[P].forks \ {head} ELSE {}
           IN (P # 0 /\ Cardinality(rest) = 1)
              => LET S == CHOOSE x \in rest : TRUE
                     pb == all_branches[P]
                 IN /\ DOMAIN all_branches' = DOMAIN all_branches \ {head, P}
                    /\ S \in DOMAIN all_branches'
                    /\ all_branches'[S] =
                         [all_branches[S] EXCEPT !.bottom = pb.bottom,
                                                 !.bottom_height = pb.bottom_height,
                                                 !.parent = pb.parent]
                    /\ pb.parent # 0
                         => all_branches'[pb.parent] =
                              [all_branches[pb.parent] EXCEPT !.forks =
                                  (@ \ {P}) \cup {S}]
                    /\ \A id \in DOMAIN all_branches' \ {S, pb.parent} :
                           all_branches'[id] = all_branches[id] ]_vars

\* removeHead collapsed a branch that had a parent of its own
C24_Witness ==
    /\ last.op = "removeHead" /\ last.code = "OK"
    /\ last.ret[1] # 0 /\ last.ret[2] # 0
    /\ last.ret[2] \in DOMAIN all_branches
    /\ all_branches[last.ret[2]].parent # 0

\* C25: linkToHead(base, successor) returns BRANCH_IS_NOT_A_ROOT when
\* successor is not in roots, otherwise BRANCH_IS_NOT_A_HEAD when base is not
\* in heads, otherwise LINK_HEIGHT_MISMATCH when the two branches are held and
\* successor.bottom_height <= base.top_height; and it succeeds only when
\* successor is a root, base is a head and successor.bottom_height >
\* base.top_height.
C25_LinkToHeadChecks ==
    \A base \in BranchIds, successor \in BranchIds :
        LET code == linkToHead(base, successor).code
        IN /\ successor \notin roots => code = "BRANCH_IS_NOT_A_ROOT"
           /\ (successor \in roots /\ base \notin heads)
                 => code = "BRANCH_IS_NOT_A_HEAD"
           /\ (/\ successor \in roots /\ base \in heads
               /\ Present(base) /\ Present(successor)
               /\ all_branches[successor].bottom_height
                     <= all_branches[base].top_height)
                 => code = "LINK_HEIGHT_MISMATCH"
           /\ code = "OK"
                 => /\ successor \in roots /\ base \in heads
                    /\ all_branches[successor].bottom_height
                          > all_branches[base].top_height

\* linkToHead has just joined a root to a head, and in the graph it left a
\* call would meet each of the three errors
C25_Witness ==
    /\ last.op = "linkToHead" /\ last.code = "OK"
    /\ \E b, s \in DOMAIN all_branches :
           linkToHead(b, s).code = "BRANCH_IS_NOT_A_ROOT" /\ b \notin heads
    /\ \E b, s \in DOMAIN all_branches :
           linkToHead(b, s).code = "BRANCH_IS_NOT_A_HEAD"
    /\ \E b, s \in DOMAIN all_branches :
           linkToHead(b, s).code = "LINK_HEIGHT_MISMATCH"

\* C26: after a successful linkToHead(base, successor), successor has base's
\* former bottom, bottom_height and parent; base's former parent (if any) has
\* base replaced by successor in its forks; base is in none of heads, roots
\* and all_branches; successor is in roots exactly when base's former parent
\* was 0; and a current_chain that ended at base is empty.
C26_LinkToHeadAbsorbsBase ==
    [][ (/\ last'.op = "linkToHead" /\ last'.code = "OK"
         /\ last'.a \in heads /\ last'.b \in roots
         /\ Present(last'.a) /\ Present(last'.b))
        => LET base == all_branches[last'.a]
               s == last'.b
           IN /\ s \in DOMAIN all_branches'
              /\ all_branches'[s].bottom = base.bottom
              /\ all_branches'[s].bottom_height = base.bottom_height
              /\ all_branches'[s].parent = base.parent
              /\ base.parent # 0
                   => all_branches'[base.parent].forks =
                        (all_branches[base.parent].forks \ {base.id}) \cup {s}
              /\ last'.a \notin heads' /\ last'.a \notin roots'
              /\ last'.a \notin DOMAIN all_branches'
              /\ s \in roots' <=> base.parent = 0
              /\ ChainEndsAt(current_chain, last'.a)
                   => current_chain' = EmptyMap ]_vars

\* the inputs C27 says load rejects
RejectedInput(v) ==
    \/ \E i \in DOMAIN v : v[i].id = 0
    \/ \E i, j \in DOMAIN v : i # j /\ v[i].id = v[j].id
    \/ \E i \in DOMAIN v : v[i].top_height < v[i].bottom_height
    \/ \E i \in DOMAIN v : v[i].parent = v[i].id
    \/ \E i \in DOMAIN v :
          /\ v[i].parent # 0
          /\ \A j \in DOMAIN v : v[j].id # v[i].parent
    \/ \E i, j \in DOMAIN v :
          /\ v[i].parent # 0 /\ v[j].id = v[i].parent
          /\ v[j].top_height >= v[i].bottom_height

\* C27: load returns GRAPH_LOAD_ERROR exactly when its input holds a branch
\* with id 0, two branches with one id, a branch with top_height below
\* bottom_height, a branch that is its own parent, a parent id that is not in
\* the input, or a parent whose top_height is not below the child's
\* bottom_height; after a failed load all_branches, roots, heads and
\* current_chain are empty, whatever the graph held before.
C27_LoadRejects ==
    /\ [](last.op = "load"
            => /\ last.code \in {"OK", "GRAPH_LOAD_ERROR"}
               /\ last.code = "GRAPH_LOAD_ERROR" <=> RejectedInput(last.a))
    /\ [][ (last'.op = "load" /\ last'.code = "GRAPH_LOAD_ERROR")
              => /\ all_branches' = EmptyMap /\ roots' = {} /\ heads' = {}
                 /\ current_chain' = EmptyMap ]_vars

\* a load rejected for nothing but a parent that ends at the height where
\* its child begins
C27_Witness ==
    /\ last.op = "load" /\ last.code = "GRAPH_LOAD_ERROR"
    /\ all_branches = EmptyMap
    /\ Len(last.a) = 2
    /\ last.a[1].id = 1 /\ last.a[1].parent = 0
    /\ last.a[2].id = 2 /\ last.a[2].parent = 1
    /\ last.a[1].bottom_height <= last.a[1].top_height
    /\ last.a[2].bottom_height <= last.a[2].top_height
    /\ last.a[1].top_height = last.a[2].bottom_height

C29_SwitchToHeadIdempotent ==
    (last.op = "switchToHead" /\ last.code = "OK")
        => LET o == switchToHead(last.a)
           IN /\ o.code = "OK"
              /\ o.current_chain = current_chain
              /\ o.current_chain_bottom_height = current_chain_bottom_height
              /\ \A h \in 0..(MaxHeight + 1) :
                    findByHeight(o.current_chain,
                                 o.current_chain_bottom_height, h)
                      = findByHeight(current_chain,
                                     current_chain_bottom_height, h)

\* a head with a parent has been adopted
C29_Witness ==
    /\ last.op = "switchToHead" /\ last.code = "OK"
    /\ last.a \in heads /\ Present(last.a)
    /\ all_branches[last.a].parent # 0
    /\ Cardinality(DOMAIN current_chain) >= 2

\* the branch records of map ab as a vector, in the order of their ids
RECURSIVE Dump(_)
Dump(ab) ==
    IF DOMAIN ab = {} THEN << >>
    ELSE LET id == SetMax(DOMAIN ab)
         IN Append(Dump(MapErase(ab, id)), ab[id])

\* C30: after a load and any removeHead and linkToHead calls, a load of the
\* branch records held in all_branches into a fresh graph succeeds and
\* gives the same all_branches, roots and heads.
C30_LoadOfDumpIsGraph ==
    LET r == LoadResult(Dump(all_branches))
    IN /\ r.ok
       /\ r.all_branches = all_branches
       /\ r.roots = roots
       /\ r.heads = heads

\* C31: a successful linkBranches(base, successor_root, ..) on two different
\* branches changes the graph: afterwards successor_root is not a root and has a parent, a branch
\* held in all_branches (the part of base that ends at parent_height).
C31_LinkBranchesAttaches ==
    [][ (last'.op = "linkBranches" /\ last'.code = "OK" /\ last'.a # last'.b)
            => /\ <<all_branches', roots', heads'>>
                     # <<all_branches, roots, heads>>
               /\ last'.b \notin roots'
               /\ last'.b \in DOMAIN all_branches'
               /\ all_branches'[last'.b].parent # 0
               /\ all_branches'[last'.b].parent \in DOMAIN all_branches' ]_vars

\* C33: after load, removeHead and linkToHead every id in roots and every id
\* in heads is a branch of all_branches, so the assertion of getRootsOrHeads
\* holds for getRoots() and for getHeads().
C33_RootsAndHeadsPresent ==
    \A id \in roots \cup heads : id \in DOMAIN all_branches

\* the parent-pointer walk of switchToHead from head with cycle guard n
WalkFrom(head, n) == ChainWalk(all_branches, EmptyMap, head, n)

\* C34: after load, removeHead and linkToHead the walk of switchToHead from
\* any head ends at a branch without parent after visiting at most
\* |all_branches| branches: with the guard |all_branches| + 1 of the code,
\* and already with |all_branches|, it neither returns CYCLE_DETECTED nor
\* fails its lookup assertion.
C34_WalkReachesRoot ==
    \A h \in heads :
        /\ WalkFrom(h, Cardinality(DOMAIN all_branches)).code = "OK"
        /\ WalkFrom(h, Cardinality(DOMAIN all_branches) + 1).code = "OK"

\* removeHead has collapsed a branch into a head that has a parent, and the
\* walk from that head passes more than one branch
C34_Witness ==
    /\ last.op = "removeHead" /\ last.code = "OK"
    /\ last.ret[2] \in heads
    /\ last.ret[2] \in DOMAIN all_branches
    /\ all_branches[last.ret[2]].parent # kZeroBranchId
    /\ WalkFrom(last.ret[2], Cardinality(DOMAIN all_branches)).code = "OK"
    /\ WalkFrom(last.ret[2], 1).code = "CYCLE_DETECTED"

(* ========================= claims: the SyncJob ======================== *)

\* C5: while the job waits for the tipset with hash X (status.next = X), a
\* call onTipsetLoaded(Y, result) with Y # X, whatever the result, leaves the
\* whole job as it was (status, active flag, no callback scheduled), stores
\* nothing in the chain db and asks the loader for nothing.
C5_StaleDeliveryIgnored ==
    [][ (/\ slast'.op = "onTipsetLoaded"
         /\ job.status.next # NoHash
         /\ slast'.hash # job.status.next)
        => (/\ job' = job
            /\ stored' = stored
            /\ requests' \subseteq requests
            /\ finished' = finished) ]_vars

\* C5: a delivery of a hash below the awaited one has just been made to a
\* job in progress (an accepted delivery leaves next below the hash)
C5_Witness ==
    /\ slast.op = "onTipsetLoaded"
    /\ job.active
    /\ job.status.code = "IN_PROGRESS"
    /\ job.status.next \in Hashes
    /\ slast.hash < job.status.next

\* C6: an active job that has asked the loader for the parents of the tipset
\* it resumed from (status.next, no callback scheduled yet) accepts the
\* delivery of exactly that hash: the call does not leave the job as it was.
C6_ResumeAcceptsParents ==
    [][ (/\ slast'.op = "onTipsetLoaded"
         /\ job.active
         /\ ~job.cb
         /\ job.status.next \in requests
         /\ slast'.hash = job.status.next)
        => job' # job ]_vars

TerminalCodes ==
    {"SYNCED_TO_GENESIS", "INTERRUPTED", "BAD_BLOCKS", "INTERNAL_ERROR"}

\* the edges IDLE -> IN_PROGRESS -> terminal, and the resets to IDLE made by
\* the terminal callback and by cancel
CodeEdge(from, to) ==
    \/ from = "IDLE" /\ to = "IN_PROGRESS"
    \/ from = "IN_PROGRESS" /\ to \in TerminalCodes
    \/ from \in TerminalCodes \cup {"IN_PROGRESS"} /\ to = "IDLE"

\* C15: an active job with an outstanding request for status.next has code
\* IN_PROGRESS, and status.code changes only from IDLE to IN_PROGRESS, from
\* IN_PROGRESS to a terminal code, and from there (or by cancel) back to
\* IDLE.
C15_StatusCodeEdges ==
    /\ [](job.active /\ ~job.cb /\ job.status.next \in requests
              => job.status.code = "IN_PROGRESS")
    /\ [][ job'.status.code # job.status.code
              => CodeEdge(job.status.code, job'.status.code) ]_vars

\* C16: a request is added to the loader's outstanding requests only by
\* start on a job that was not active, or by onTipsetLoaded of the hash the
\* job was waiting for, whose own request is then no longer outstanding; the
\* added request is the one for the new status.next; and while a job in
\* progress waits, the request for status.next is outstanding.
C16_OneOutstandingRequest ==
    /\ [](job.active /\ ~job.cb /\ job.status.code = "IN_PROGRESS"
              => job.status.next \in requests)
    /\ [][ requests' \ requests # {}
              => /\ requests' \ requests = {job'.status.next}
                 /\ \/ slast'.op = "start" /\ ~job.active
                    \/ /\ slast'.op = "onTipsetLoaded"
                       /\ slast'.hash = job.status.next
                       /\ job.status.next \notin requests' ]_vars

\* C16: the delivery the job was waiting for has been stored and the request
\* for the next hash is outstanding
C16_Witness ==
    /\ slast.op = "onTipsetLoaded"
    /\ slast.hash \in stored
    /\ job.active
    /\ job.status.code = "IN_PROGRESS"
    /\ job.status.last_loaded # NoHash
    /\ job.status.next < slast.hash
    /\ requests = {job.status.next}

\* C16, as stated of the job at every moment: the loader holds at most one
\* outstanding request made by the job, and it is the one for status.next.
C16_AtMostOneAtEveryMoment ==
    /\ Cardinality(requests) <= 1
    /\ \A hash \in requests : hash = job.status.next

\* C17: the terminal callback of a SyncJob is handed the status only by a
\* scheduler step of its own, never inside start or onTipsetLoaded; a job
\* that reaches a terminal status has the callback scheduled, the scheduled
\* callback runs unless the job is cancelled, and nothing schedules it a
\* second time; when it runs the job is inactive with a default status; a
\* delivery that arrives while the callback is scheduled changes nothing.
C17_CallbackDeferredOnce ==
    /\ [](job.active /\ job.status.code \in TerminalCodes => job.cb)
    /\ [][ (finished' # finished /\ finished' # IdleStatus)
              => /\ slast'.op = "callback" /\ job.cb
                 /\ finished' = job.status
                 /\ finished'.code \in TerminalCodes
                 /\ job' = NewJob ]_vars
    /\ [][ (job'.cb /\ ~job.cb)
              => /\ slast'.op \in {"start", "onTipsetLoaded"}
                 /\ job'.active /\ job'.status.code \in TerminalCodes
                 /\ finished' = IdleStatus ]_vars
    /\ [][ (job.cb /\ job'.cb) => job' = job /\ stored' = stored ]_vars
    /\ [][ (job.cb /\ slast'.op = "onTipsetLoaded")
              => job' = job /\ stored' = stored /\ finished' = finished ]_vars
    /\ [](job.cb => <>(~job.cb))

\* the callback of a finished job has run while the loader still holds a request
C17_Witness ==
    /\ slast.op = "callback" /\ job = NewJob
    /\ finished.code \in TerminalCodes
    /\ requests # {}

(* ====================== claims: the InterpreterJob ==================== *)

\* C8: a run started on a head at height T whose highest interpreted
\* ancestor is at height C < T, in which no call failed and which was not
\* cancelled, has, once its terminal callback has run, handed to interpret
\* exactly the tipsets C+1, ..., T in that order, delivered the result of
\* the head, and left current_height = target_height = T.
C8_InterpretsUpToHead ==
    (/\ irun.ok
     /\ ~irun.was_saved
     /\ irun.base # NoHash
     /\ ~irun.failed
     /\ ~irun.cancelled
     /\ irun.callbacks = 1)
    => (/\ irun.interpreted = Ascending(irun.base + 1, irun.head)
        /\ idelivered = [head |-> irun.head, result |-> Value(irun.head)]
        /\ ijob.current_height = HeightOf(irun.head)
        /\ ijob.target_height = HeightOf(irun.head))

\* C9: a run started with success on a head that had a saved result (and
\* not cancelled) hands nothing to interpret, does not call setCurrentHead
\* and leaves the job inactive; its terminal callback is scheduled until it
\* runs, runs at most once, and carries the saved result of the head.
C9_CachedHeadOneCallback ==
    (irun.was_saved /\ irun.ok /\ ~irun.cancelled)
    => (/\ irun.interpreted = << >>
        /\ ~irun.set_head
        /\ ~ijob.active
        /\ ijob.result = Value(irun.head)
        /\ \/ irun.callbacks = 0 /\ ijob.cb = "result"
           \/ /\ irun.callbacks = 1 /\ ijob.cb = "none"
              /\ idelivered = [head |-> irun.head,
                               result |-> Value(irun.head)])

\* C9: the terminal callback of a run started on a head with a saved result
\* has run
C9_Witness ==
    /\ irun.was_saved
    /\ irun.ok
    /\ ~irun.cancelled
    /\ irun.callbacks = 1
    /\ idelivered.result.ok

\* C18: after SyncJob::cancel the job is inactive with a default status and
\* no callback scheduled, and until it is started again a delivery changes
\* neither the job nor the chain db, and no callback runs; after
\* InterpreterJob::cancel the job is inactive with nothing scheduled, and until
\* it is started again its state stays as it is, no tipset is interpreted and
\* the callback is not invoked.
C18_CancelStopsTheRun ==
    /\ [](~job.active => job = NewJob)
    /\ [][ slast'.op = "cancel" => job' = NewJob /\ finished' = finished ]_vars
    /\ [][ (~job.active /\ slast'.op # "start")
              => /\ job' = job /\ stored' = stored /\ finished' = finished
                 /\ requests' \subseteq requests ]_vars
    /\ [](irun.cancelled => ~ijob.active /\ ijob.cb = "none")
    /\ [][ (irun.cancelled /\ irun'.cancelled)
              => /\ ijob' = ijob /\ saved' = saved /\ chain_head' = chain_head
                 /\ irun'.interpreted = irun.interpreted
                 /\ irun'.callbacks = irun.callbacks
                 /\ idelivered' = idelivered ]_vars

\* an InterpreterJob cancelled between two steps, short of its target
C18_Witness ==
    /\ irun.cancelled /\ irun.ok /\ ~irun.was_saved
    /\ irun.interpreted # << >> /\ irun.callbacks = 0
    /\ ijob.current_height < ijob.target_height

\* C32: a start that found no interpreted ancestor of the head begins the
\* run at height 0, whatever current_height an earlier run left in the job,
\* and the assertion target_height >= current_height of fillNextSteps never
\* fails.
C32_StartsFromRoot ==
    /\ (/\ irun.ok /\ ~irun.was_saved /\ irun.base = NoHash
        /\ irun.interpreted = << >> /\ ijob.active /\ ijob.cb = "step")
           => ijob.current_height = 0
    /\ ~ijob.crashed

(* ========================== claims: the Syncer ======================== *)

\* the target of peer p is the heaviest of the pending targets pt and, among
\* the heaviest, one of the highest
IsBest(pt, p) ==
    /\ p \in DOMAIN pt
    /\ \A q \in DOMAIN pt :
           \/ pt[q].weight < pt[p].weight
           \/ pt[q].weight = pt[p].weight /\ pt[q].height <= pt[p].height

\* C7: whenever Syncer::start takes a target out of pending_targets and
\* starts the job on it, whatever the iteration order of the map, that
\* target has the greatest weight of the pending targets and, among those of
\* the greatest weight, the greatest height.
C7_ChoosesHeaviestThenHighest ==
    [][ (/\ ~job.active
         /\ job'.active
         /\ pending_targets' # pending_targets)
        => IsBest(pending_targets, job'.status.peer) ]_vars

\* C12: every job the Syncer started ends with the Syncer's callback_ being
\* called: when the SyncJob's terminal callback runs with a status other
\* than SYNCED_TO_GENESIS, and when the InterpreterJob's terminal callback
\* runs, success or failure, the upper layer has been called by the end of
\* that step.
C12_EveryEndNotifiesUpper ==
    [][ /\ (job.cb /\ job' = NewJob /\ job.status.code # "SYNCED_TO_GENESIS")
           => upper' # NoResult
        /\ (ijob.cb = "result" /\ irun'.callbacks = irun.callbacks + 1)
           => upper' # NoResult ]_vars

\* C13: when the SyncJob's terminal callback runs, with any status, while a
\* pending target is heavier than the local chain, the Syncer starts a
\* SyncJob on a pending target in that same step, with no call of start or
\* newTarget from outside.
C13_FinishedJobDrainsPending ==
    [][ (/\ job.cb
         /\ finished' = job.status
         /\ \E p \in DOMAIN pending_targets :
                pending_targets[p].weight > current_weight)
        => (/\ job'.active
            /\ job'.status.peer \in DOMAIN pending_targets) ]_vars

\* C14: when the loader hands Syncer::onTipsetLoaded a failure for the hash
\* the active job is waiting for, the job becomes INTERNAL_ERROR with an
\* error code, its terminal callback is scheduled, and status.last_loaded
\* is still the last tipset that was loaded and stored.
C14_LoadFailureEndsJob ==
    [][ (/\ slast'.op = "onTipsetLoaded failure"
         /\ isActive(started, job)
         /\ job.status.code = "IN_PROGRESS"
         /\ slast'.hash = job.status.next)
        => (/\ job'.status.code = "INTERNAL_ERROR"
            /\ job'.status.error # "none"
            /\ job'.status.last_loaded = job.status.last_loaded
            /\ job'.cb) ]_vars

\* what C19 says of a call newTarget(peer, head, weight, height of head)
NewTargetAdmission(peer, head, weight) ==
    LET height == HeightOf(head)
        low == weight < current_weight /\ height < current_height
        p == IF peer = NoPeer THEN last_good_peer ELSE peer
    IN IF low \/ p = NoPeer THEN UNCHANGED vars
       ELSE IF started /\ ~job.active
       THEN /\ job'.active
            /\ job'.status.peer = p /\ job'.status.head = head
            /\ pending_targets' = pending_targets
       ELSE /\ pending_targets' =
                   MapPut(pending_targets, p, Target(head, weight, height))
            /\ job' = job /\ requests' = requests

\* C19: newTarget drops, with no state change, a target whose weight and
\* height are both below current_weight and current_height; a target with no
\* peer takes last_good_peer and is dropped when there is none; an admitted
\* target starts the SyncJob at once when the Syncer is started and no job is
\* active, and otherwise is stored in pending_targets under its peer.
C19_NewTargetAdmission ==
    [][ (pending_targets' # pending_targets \/ (job'.active /\ ~job.active))
            => \A peer \in Peers \cup {NoPeer}, head \in TargetHeads,
                  weight \in Weights :
                   newTarget(peer, head, weight, TRUE, TRUE)
                       => NewTargetAdmission(peer, head, weight) ]_vars

\* a target was stored under last_good_peer while the job runs for another peer
C19_Witness ==
    /\ started /\ job.active
    /\ last_good_peer \in DOMAIN pending_targets
    /\ last_good_peer # job.status.peer

\* C20: no assertion of startJob fails, so the Syncer starts a SyncJob only
\* when it is started and the job is not active; a job that stays active keeps
\* its peer and head; and a step that changes pending_targets while the job is
\* active, a call of newTarget among them, leaves the job and the loader's
\* outstanding requests as they are.
C20_ActiveJobIsExclusive ==
    /\ [](~aborted)
    /\ [](job.active => started)
    /\ [][ (job.active /\ job'.active)
              => /\ job'.status.peer = job.status.peer
                 /\ job'.status.head = job.status.head ]_vars
    /\ [][ (job.active /\ pending_targets' # pending_targets)
              => /\ job' = job /\ requests' = requests
                 /\ \A peer \in Peers \cup {NoPeer}, head \in TargetHeads,
                       weight \in Weights :
                        newTarget(peer, head, weight, TRUE, TRUE)
                            => /\ job'.status.peer = job.status.peer
                               /\ job'.status.head = job.status.head
                               /\ job'.status.next = job.status.next
                               /\ requests' = requests ]_vars

\* a job in progress for one target while a target with another head is pending
C20_Witness ==
    /\ job.active /\ job.status.code = "IN_PROGRESS"
    /\ job.status.next \in requests
    /\ \E p \in DOMAIN pending_targets :
           pending_targets[p].head # job.status.head

\* C21: the InterpreterJob is started, and last_good_peer is written, only by
\* the step that runs the callback of a SyncJob which ended with
\* SYNCED_TO_GENESIS: that step starts the interpreter on the job's head and
\* sets last_good_peer to the job's peer; the callback of a job that ended
\* with another code leaves the interpreter and last_good_peer alone.
C21_InterpreterStartsOnSynced ==
    /\ [][ (job.cb /\ job' = NewJob /\ job.status.code = "SYNCED_TO_GENESIS")
              => /\ last_good_peer' = job.status.peer
                 /\ irun'.head = job.status.head
                 /\ irun'.callbacks = 0 /\ irun'.interpreted = << >>
                 /\ ~irun'.cancelled
                 /\ irun'.ok => ijob'.head = job.status.head ]_vars
    /\ [][ (job.cb /\ job' = NewJob /\ job.status.code # "SYNCED_TO_GENESIS")
              => UNCHANGED <<last_good_peer, ivars>> ]_vars
    /\ [][ (\/ irun'.head # irun.head
            \/ last_good_peer' # last_good_peer
            \/ ijob'.active /\ ~ijob.active
            \/ ijob'.head # ijob.head)
              => /\ job.cb /\ job' = NewJob
                 /\ job.status.code = "SYNCED_TO_GENESIS" ]_vars

\* the callback of a synced job has run: the interpreter works on its head
C21_Witness ==
    /\ slast.op = "callback" /\ finished.code = "SYNCED_TO_GENESIS"
    /\ last_good_peer = finished.peer
    /\ ijob.active /\ ijob.head = finished.head /\ irun.head = finished.head

\* C22: a call of newTarget with the peer and the head the active SyncJob is
\* syncing changes nothing: pending_targets, the job and the loader's
\* requests are as before the call.
C22_SameTargetIsNoOp ==
    [][ (isActive(started, job) /\ pending_targets' # pending_targets)
            => \A peer \in Peers, head \in TargetHeads, weight \in Weights :
                   (/\ job.status.peer = peer /\ job.status.head = head
                    /\ newTarget(peer, head, weight, TRUE, TRUE))
                       => UNCHANGED <<pending_targets, job, requests>> ]_vars

\* C35: a target that newTarget admitted, one not below the local chain in
\* both weight and height, is not dropped by chooseNextTarget: when the
\* first Syncer::start finds pending targets and ends with none pending and
\* no job started, every one of them had both its weight and its height
\* below current_weight and current_height.
C35_ChooseKeepsAdmitted ==
    [][ (/\ ~started /\ started'
         /\ pending_targets # EmptyMap
         /\ pending_targets' = EmptyMap
         /\ ~job'.active)
        => \A p \in DOMAIN pending_targets :
               /\ pending_targets[p].weight < current_weight
               /\ pending_targets[p].height < current_height ]_vars
====
